---- MODULE Spec2Model ----
(***************************************************************************)
(* Model of the lab3 compiler core: the three-address-code (TAC)           *)
(* representation (ir.h), the code generator (codegen.h), the optimizer    *)
(* (optimizer.h) and the interpreter (interpreter.h).                      *)
(***************************************************************************)
EXTENDS Integers, Sequences, FiniteSets, TLC

VARIABLES
    ast,        \* the parsed program (sequence of statements) handed to analyze, generate
    stage,      \* "parsed" (AST built), "analyzing" (inside analyze), "analyzed"
                \* (analyze returned) or "generated" (IR available)
    sem,        \* the members of the SemanticAnalyzer
    spos,       \* statements of ast visited by the running analyze call
    analyses,   \* analyses[n]: what the n-th analyze call on the analyzer reported
    gen,        \* the members of the CodeGenerator
    progs,      \* IR programs so far: progs[1] is the generated/loaded program,
                \* progs[k+1] = optimize(progs[k]); the last one is the current ir
    results,    \* results[k]: outcome of execute(progs[k]), or NoResult
    variables,  \* Interpreter::variables
    output,     \* Interpreter::output
    pc,         \* Interpreter::pc
    status,     \* position of execute: "idle", "running", "ok" (returned true), "fail"
    steps,      \* loop iterations of the running execute call
    reads,      \* history: <<operand, value>> of every getValue call of the last step
    setLog      \* history: name -> [type, v] of the latest setValue call on that name

vars == <<ast, stage, sem, spos, analyses, gen, progs, results, variables, output, pc, status, steps, reads, setLog>>

\* ---------------------------------------------------------------- bounds
MaxLen == 3      \* longest hand-built TAC program
MaxSteps == 12   \* loop iterations followed per execute call
MaxOpt == 2      \* optimize calls in a row
MaxDepth == 2    \* nesting depth of control statements in the generated ASTs
MaxConst == 2    \* constants of the fold programs range over -MaxConst..MaxConst
MaxStmts == 3    \* longest program built from the semantic statement pool
MaxAnalyze == 2  \* analyze calls on one analyzer

\* ---------------------------------------------------------------- ir.h
Operand == [type |-> "VAR", name |-> "", value |-> 0]
OperandName(n, t) == [type |-> t, name |-> n, value |-> 0]
OperandInt(v) == [type |-> "CONST", name |-> ToString(v), value |-> v]

str(op) == op.name
isConst(op) == op.type = "CONST"
isTemp(op) == op.type = "TEMP"
isVar(op) == op.type = "VAR"

BinOps == {"ADD", "SUB", "MUL", "DIV", "MOD", "EQ", "NE", "LT", "GT", "LE", "GE", "AND", "OR"}
UnOps == {"NEG", "NOT"}

Instruction ==
    [type |-> "NOP", result |-> Operand, op1 |-> Operand, op2 |-> Operand,
     label |-> "", binOp |-> "ADD", unOp |-> "NEG", args |-> <<>>, funcName |-> ""]

createBinOp(result, op, op1, op2) ==
    [Instruction EXCEPT !.type = "BIN_OP", !.result = result, !.binOp = op,
                        !.op1 = op1, !.op2 = op2]
createUnOp(result, op, operand) ==
    [Instruction EXCEPT !.type = "UN_OP", !.result = result, !.unOp = op, !.op1 = operand]
createAssign(dst, src) ==
    [Instruction EXCEPT !.type = "ASSIGN", !.result = dst, !.op1 = src]
createLabel(lbl) == [Instruction EXCEPT !.type = "LABEL", !.label = lbl]
createGoto(lbl) == [Instruction EXCEPT !.type = "GOTO", !.label = lbl]
createIfGoto(cond, lbl) ==
    [Instruction EXCEPT !.type = "IF_GOTO", !.op1 = cond, !.label = lbl]
createCall(result, func, arguments) ==
    [Instruction EXCEPT !.type = "CALL", !.result = result, !.funcName = func,
                        !.args = arguments]
createReturn(value) == [Instruction EXCEPT !.type = "RETURN", !.op1 = value]
createPrint(value) == [Instruction EXCEPT !.type = "PRINT", !.op1 = value]

\* IRProgram: instructions and variableTypes (symbolTable is never written or read)
IRProgram == [instructions |-> <<>>, variableTypes |-> <<>>]

\* ---------------------------------------------------------------- C++ int arithmetic
Abs(a) == IF a < 0 THEN -a ELSE a
\* operator/ and operator% of int truncate toward zero
CDiv(a, b) == IF (a < 0) = (b < 0) THEN Abs(a) \div Abs(b) ELSE -(Abs(a) \div Abs(b))
CMod(a, b) == a - b * CDiv(a, b)
Bool01(b) == IF b THEN 1 ELSE 0

\* ---------------------------------------------------------------- interpreter.h
\* getValue: [ok |-> FALSE] stands for the thrown runtime_error
getValue(store, op) ==
    IF isConst(op) THEN [ok |-> TRUE, v |-> op.value]
    ELSE IF isVar(op)
         THEN IF str(op) \in DOMAIN store
              THEN [ok |-> TRUE, v |-> store[str(op)]]
              ELSE [ok |-> FALSE, v |-> 0]
         ELSE [ok |-> TRUE, v |-> 0]

setValue(store, op, value) ==
    IF isVar(op)
    THEN [n \in (DOMAIN store) \cup {str(op)} |-> IF n = str(op) THEN value ELSE store[n]]
    ELSE store


\* mutant of binOpResult: a zero divisor yields 0 instead of throwing
binOpResultNoThrow(op, left, right) ==
    CASE op = "ADD" -> [ok |-> TRUE, v |-> left + right]
      [] op = "SUB" -> [ok |-> TRUE, v |-> left - right]
      [] op = "MUL" -> [ok |-> TRUE, v |-> left * right]
      [] op = "DIV" -> [ok |-> TRUE, v |-> IF right = 0 THEN 0 ELSE CDiv(left, right)]
      [] op = "MOD" -> [ok |-> TRUE, v |-> IF right = 0 THEN 0 ELSE CMod(left, right)]
      [] op = "EQ" -> [ok |-> TRUE, v |-> Bool01(left = right)]
      [] op = "NE" -> [ok |-> TRUE, v |-> Bool01(left # right)]
      [] op = "LT" -> [ok |-> TRUE, v |-> Bool01(left < right)]
      [] op = "GT" -> [ok |-> TRUE, v |-> Bool01(left > right)]
      [] op = "LE" -> [ok |-> TRUE, v |-> Bool01(left <= right)]
      [] op = "GE" -> [ok |-> TRUE, v |-> Bool01(left >= right)]
      [] op = "AND" -> [ok |-> TRUE, v |-> Bool01(left # 0 /\ right # 0)]
      [] op = "OR" -> [ok |-> TRUE, v |-> Bool01(left # 0 \/ right # 0)]

\* the switch of executeBinOp: the result, or ok = FALSE for a throw
binOpResult(op, left, right) ==
    CASE op = "ADD" -> [ok |-> TRUE, v |-> left + right]
      [] op = "SUB" -> [ok |-> TRUE, v |-> left - right]
      [] op = "MUL" -> [ok |-> TRUE, v |-> left * right]
      [] op = "DIV" -> IF right = 0 THEN [ok |-> FALSE, v |-> 0]
                       ELSE [ok |-> TRUE, v |-> CDiv(left, right)]
      [] op = "MOD" -> IF right = 0 THEN [ok |-> FALSE, v |-> 0]
                       ELSE [ok |-> TRUE, v |-> CMod(left, right)]
      [] op = "EQ" -> [ok |-> TRUE, v |-> Bool01(left = right)]
      [] op = "NE" -> [ok |-> TRUE, v |-> Bool01(left # right)]
      [] op = "LT" -> [ok |-> TRUE, v |-> Bool01(left < right)]
      [] op = "GT" -> [ok |-> TRUE, v |-> Bool01(left > right)]
      [] op = "LE" -> [ok |-> TRUE, v |-> Bool01(left <= right)]
      [] op = "GE" -> [ok |-> TRUE, v |-> Bool01(left >= right)]
      [] op = "AND" -> [ok |-> TRUE, v |-> Bool01(left # 0 /\ right # 0)]
      [] op = "OR" -> [ok |-> TRUE, v |-> Bool01(left # 0 \/ right # 0)]

unOpResult(op, operand) ==
    IF op = "NEG" THEN -operand
    ELSE IF op = "NOT" THEN Bool01(operand = 0)
    ELSE 0

\* The machine state threaded through one loop iteration:
\* m = [variables, output, pc, status, reads, sets]
Throw(m) == [m EXCEPT !.status = "fail"]
Read(m, op, v) == [m EXCEPT !.reads = Append(@, [op |-> op, v |-> v])]
Write(m, op, v) ==
    [m EXCEPT !.variables = setValue(@, op, v),
              !.sets = Append(@, [op |-> op, v |-> v])]

executeBinOp(m, instr) ==
    LET left == getValue(m.variables, instr.op1) IN
    IF ~left.ok THEN Throw(m) ELSE
    LET m1 == Read(m, instr.op1, left.v)
        right == getValue(m.variables, instr.op2) IN
    IF ~right.ok THEN Throw(m1) ELSE
    LET m2 == Read(m1, instr.op2, right.v)
        r == binOpResult(instr.binOp, left.v, right.v) IN
    IF ~r.ok THEN Throw(m2) ELSE Write(m2, instr.result, r.v)

executeUnOp(m, instr) ==
    LET operand == getValue(m.variables, instr.op1) IN
    IF ~operand.ok THEN Throw(m)
    ELSE Write(Read(m, instr.op1, operand.v), instr.result, unOpResult(instr.unOp, operand.v))

executeAssign(m, instr) ==
    LET value == getValue(m.variables, instr.op1) IN
    IF ~value.ok THEN Throw(m)
    ELSE Write(Read(m, instr.op1, value.v), instr.result, value.v)

\* findLabel: the first index (0-based) of a LABEL with that name, -1 for the throw
findLabel(program, label) ==
    LET hits == {i \in 1..Len(program.instructions) :
                    /\ program.instructions[i].type = "LABEL"
                    /\ program.instructions[i].label = label}
    IN IF hits = {} THEN -1
       ELSE (CHOOSE i \in hits : \A j \in hits : i <= j) - 1

\* mutant of jump: a resolved jump continues at the jump itself
jumpStaysAtJump(m, program, label) ==
    LET target == findLabel(program, label) IN
    IF target < 0 THEN Throw(m) ELSE [m EXCEPT !.pc = m.pc - 1]

jump(m, program, label) ==
    LET target == findLabel(program, label) IN
    IF target < 0 THEN Throw(m) ELSE [m EXCEPT !.pc = target - 1]

executePrint(m, op) ==
    LET value == getValue(m.variables, op) IN
    IF ~value.ok THEN Throw(m)
    ELSE [Read(m, op, value.v) EXCEPT !.output = Append(@, ToString(value.v))]

\* the switch of execute, without the trailing pc++
dispatch(m, program, instr) ==
    CASE instr.type = "BIN_OP" -> executeBinOp(m, instr)
      [] instr.type = "UN_OP" -> executeUnOp(m, instr)
      [] instr.type = "ASSIGN" -> executeAssign(m, instr)
      [] instr.type = "LABEL" -> m
      [] instr.type = "GOTO" -> jump(m, program, instr.label)
      [] instr.type = "IF_GOTO" ->
            LET condValue == getValue(m.variables, instr.op1) IN
            IF ~condValue.ok THEN Throw(m)
            ELSE IF condValue.v = 0
                 THEN jump(Read(m, instr.op1, condValue.v), program, instr.label)
                 ELSE Read(m, instr.op1, condValue.v)
      [] instr.type = "PRINT" -> executePrint(m, instr.op1)
      [] instr.type = "RETURN" -> [m EXCEPT !.status = "ok"]
      [] instr.type = "CALL" ->
            IF instr.funcName = "print" /\ Len(instr.args) > 0
            THEN executePrint(m, instr.args[1])
            ELSE m
      [] OTHER -> m

\* mutant of loopStep: a Return does not stop the loop
loopStepIgnoresReturn(m, program) ==
    IF m.pc >= Len(program.instructions)
    THEN [m EXCEPT !.status = "ok"]
    ELSE LET m1 == dispatch(m, program, program.instructions[m.pc + 1]) IN
         IF m1.status # "fail" THEN [m1 EXCEPT !.pc = @ + 1, !.status = "running"] ELSE m1

\* one iteration of the while loop of execute (the loop test included)
loopStep(m, program) ==
    IF m.pc >= Len(program.instructions)
    THEN [m EXCEPT !.status = "ok"]
    ELSE LET m1 == dispatch(m, program, program.instructions[m.pc + 1]) IN
         IF m1.status = "running" THEN [m1 EXCEPT !.pc = @ + 1] ELSE m1

\* the variable store execute starts from
initialStore(program) == [n \in DOMAIN program.variableTypes |-> 0]


\* mutant of foldBinOp: LE folded as LT
foldBinOpLeAsLt(op, val1, val2) ==
    CASE op = "ADD" -> val1 + val2
      [] op = "SUB" -> val1 - val2
      [] op = "MUL" -> val1 * val2
      [] op = "DIV" -> IF val2 # 0 THEN CDiv(val1, val2) ELSE 0
      [] op = "MOD" -> IF val2 # 0 THEN CMod(val1, val2) ELSE 0
      [] op = "EQ" -> Bool01(val1 = val2)
      [] op = "NE" -> Bool01(val1 # val2)
      [] op = "LT" -> Bool01(val1 < val2)
      [] op = "GT" -> Bool01(val1 > val2)
      [] op = "LE" -> Bool01(val1 < val2)
      [] op = "GE" -> Bool01(val1 >= val2)
      [] op = "AND" -> Bool01(val1 # 0 /\ val2 # 0)
      [] op = "OR" -> Bool01(val1 # 0 \/ val2 # 0)

\* mutant of foldBinOp: a zero divisor folds to the dividend
foldBinOpZeroDivisorKeepsDividend(op, val1, val2) ==
    CASE op = "ADD" -> val1 + val2
      [] op = "SUB" -> val1 - val2
      [] op = "MUL" -> val1 * val2
      [] op = "DIV" -> IF val2 # 0 THEN CDiv(val1, val2) ELSE val1
      [] op = "MOD" -> IF val2 # 0 THEN CMod(val1, val2) ELSE val1
      [] op = "EQ" -> Bool01(val1 = val2)
      [] op = "NE" -> Bool01(val1 # val2)
      [] op = "LT" -> Bool01(val1 < val2)
      [] op = "GT" -> Bool01(val1 > val2)
      [] op = "LE" -> Bool01(val1 <= val2)
      [] op = "GE" -> Bool01(val1 >= val2)
      [] op = "AND" -> Bool01(val1 # 0 /\ val2 # 0)
      [] op = "OR" -> Bool01(val1 # 0 \/ val2 # 0)

\* ---------------------------------------------------------------- optimizer.h
foldBinOp(op, val1, val2) ==
    CASE op = "ADD" -> val1 + val2
      [] op = "SUB" -> val1 - val2
      [] op = "MUL" -> val1 * val2
      [] op = "DIV" -> IF val2 # 0 THEN CDiv(val1, val2) ELSE 0
      [] op = "MOD" -> IF val2 # 0 THEN CMod(val1, val2) ELSE 0
      [] op = "EQ" -> Bool01(val1 = val2)
      [] op = "NE" -> Bool01(val1 # val2)
      [] op = "LT" -> Bool01(val1 < val2)
      [] op = "GT" -> Bool01(val1 > val2)
      [] op = "LE" -> Bool01(val1 <= val2)
      [] op = "GE" -> Bool01(val1 >= val2)
      [] op = "AND" -> Bool01(val1 # 0 /\ val2 # 0)
      [] op = "OR" -> Bool01(val1 # 0 \/ val2 # 0)

foldUnOp(op, val) ==
    IF op = "NEG" THEN -val
    ELSE IF op = "NOT" THEN Bool01(val = 0)
    ELSE 0


\* mutant of foldInstr: the operand is replaced but the type is left BIN_OP / UN_OP
foldInstrKeepsType(instr) ==
    IF instr.type = "BIN_OP"
    THEN IF isConst(instr.op1) /\ isConst(instr.op2)
         THEN [instr EXCEPT !.op1 = OperandInt(foldBinOp(instr.binOp, instr.op1.value,
                                                         instr.op2.value))]
         ELSE instr
    ELSE IF instr.type = "UN_OP"
    THEN IF isConst(instr.op1)
         THEN [instr EXCEPT !.op1 = OperandInt(foldUnOp(instr.unOp, instr.op1.value))]
         ELSE instr
    ELSE instr

foldInstr(instr) ==
    IF instr.type = "BIN_OP"
    THEN IF isConst(instr.op1) /\ isConst(instr.op2)
         THEN [instr EXCEPT !.type = "ASSIGN",
                            !.op1 = OperandInt(foldBinOp(instr.binOp, instr.op1.value,
                                                         instr.op2.value))]
         ELSE instr
    ELSE IF instr.type = "UN_OP"
    THEN IF isConst(instr.op1)
         THEN [instr EXCEPT !.type = "ASSIGN",
                            !.op1 = OperandInt(foldUnOp(instr.unOp, instr.op1.value))]
         ELSE instr
    ELSE instr

foldConstants(input) ==
    [input EXCEPT !.instructions = [i \in 1..Len(@) |-> foldInstr(@[i])]]

isAssignment(instr) == instr.type \in {"ASSIGN", "BIN_OP", "UN_OP"}


\* mutant of usesOf: the operand of PRINT is not marked used
usesOfNoPrint(instr) ==
    CASE instr.type \in {"RETURN", "IF_GOTO", "UN_OP", "ASSIGN"} -> {str(instr.op1)}
      [] instr.type = "BIN_OP" -> {str(instr.op1), str(instr.op2)}
      [] instr.type = "CALL" -> {str(instr.args[i]) : i \in 1..Len(instr.args)}
      [] OTHER -> {}

\* mutant of usesOf: the condition of IF_GOTO is not marked used
usesOfNoIfGoto(instr) ==
    CASE instr.type \in {"PRINT", "RETURN", "UN_OP", "ASSIGN"} -> {str(instr.op1)}
      [] instr.type = "BIN_OP" -> {str(instr.op1), str(instr.op2)}
      [] instr.type = "CALL" -> {str(instr.args[i]) : i \in 1..Len(instr.args)}
      [] OTHER -> {}

\* the names one instruction marks as used (first pass of eliminateDeadCode)
\* mutant of usesOf: the arguments of CALL are not marked used
usesOfNoCallArgs(instr) ==
    CASE instr.type \in {"PRINT", "RETURN", "IF_GOTO", "UN_OP", "ASSIGN"} -> {str(instr.op1)}
      [] instr.type = "BIN_OP" -> {str(instr.op1), str(instr.op2)}
      [] OTHER -> {}

usesOf(instr) ==
    CASE instr.type \in {"PRINT", "RETURN", "IF_GOTO", "UN_OP", "ASSIGN"} -> {str(instr.op1)}
      [] instr.type = "BIN_OP" -> {str(instr.op1), str(instr.op2)}
      [] instr.type = "CALL" -> {str(instr.args[i]) : i \in 1..Len(instr.args)}
      [] OTHER -> {}

usedVars(instructions) ==
    UNION {usesOf(instructions[i]) : i \in 1..Len(instructions)}

assignedVars(instructions) ==
    {str(instructions[i].result) :
        i \in {j \in 1..Len(instructions) : isAssignment(instructions[j])}}

\* mutant of isDead: a CALL whose result is not used is dead too
isDeadAlsoCalls(instr, used, assigned) ==
    /\ isAssignment(instr) \/ instr.type = "CALL"
    /\ str(instr.result) \notin used

isDead(instr, used, assigned) ==
    /\ isAssignment(instr)
    /\ str(instr.result) \in assigned
    /\ str(instr.result) \notin used

eliminateDeadCode(input) ==
    LET used == usedVars(input.instructions)
        assigned == assignedVars(input.instructions)
    IN [input EXCEPT !.instructions =
            SelectSeq(@, LAMBDA instr : ~isDead(instr, used, assigned))]

\* mutant of optimize: the elimination pass runs twice
optimizeEliminatesTwice(input) == eliminateDeadCode(eliminateDeadCode(foldConstants(input)))

optimize(input) == eliminateDeadCode(foldConstants(input))

\* ---------------------------------------------------------------- parser.h (AST)
NullExpr == [k |-> "NULL"]
NullStmt == [k |-> "NULL"]
ConstExprInt(v) == [k |-> "CONST_EXPR", alt |-> "int", intValue |-> v, boolValue |-> FALSE]
ConstExprBool(b) == [k |-> "CONST_EXPR", alt |-> "bool", intValue |-> 0, boolValue |-> b]
VarExpr(n) == [k |-> "VAR_EXPR", name |-> n]
BinExpr(l, o, r) == [k |-> "BIN_EXPR", left |-> l, op |-> o, right |-> r]
UnExpr(o, e) == [k |-> "UN_EXPR", op |-> o, operand |-> e]
CallExpr(fn, a) == [k |-> "CALL_EXPR", funcName |-> fn, args |-> a]

DeclStmt(name, type, init) ==
    [k |-> "DECL", varName |-> name, dataType |-> type, initializer |-> init]
AssignStmt(name, expr) == [k |-> "ASSIGN", varName |-> name, value |-> expr]
IfStmt(cond, thenB, elseB) ==
    [k |-> "IF_STMT", condition |-> cond, thenBranch |-> thenB, elseBranch |-> elseB]
WhileStmt(cond, b) == [k |-> "WHILE_STMT", condition |-> cond, body |-> b]
ForStmt(i, cond, upd, b) ==
    [k |-> "FOR_STMT", init |-> i, condition |-> cond, update |-> upd, body |-> b]
BlockStmt(stmts) == [k |-> "BLOCK", statements |-> stmts]
ReturnStmt(v) == [k |-> "RETURN_STMT", value |-> v]
PrintStmt(v) == [k |-> "PRINT_STMT", value |-> v]
\* the bare Statement that Parser::expressionStatement returns for `expr;`
DummyStmt == [k |-> "STATEMENT"]

\* std::unordered_map: m[key] = val
mapPut(f, key, val) == [n \in (DOMAIN f) \cup {key} |-> IF n = key THEN val ELSE f[n]]

\* ---------------------------------------------------------------- semantic.h
\* s = the members of SemanticAnalyzer: symbolTable, errors, warnings
\* (Symbol::definedLine is written and never read; the AST here carries no lines)
SemanticAnalyzer == [symbolTable |-> <<>>, errors |-> <<>>, warnings |-> <<>>]

Symbol(decl) ==
    [name |-> decl.varName, type |-> decl.dataType,
     initialized |-> decl.initializer.k # "NULL"]

addError(s, msg) == [s EXCEPT !.errors = Append(@, msg)]
addWarningIf(s, cond, msg) == IF cond THEN [s EXCEPT !.warnings = Append(@, msg)] ELSE s
isDefined(s, name) == name \in DOMAIN s.symbolTable

\* mutant of visitVarExpr: an undeclared name is read silently
visitVarExprNoError(s, expr) ==
    IF ~isDefined(s, expr.name) THEN [s |-> s, type |-> "int"]
    ELSE [s |-> addWarningIf(s, ~s.symbolTable[expr.name].initialized,
                             "Variable '" \o expr.name \o "' may be uninitialized"),
          type |-> s.symbolTable[expr.name].type]

visitVarExpr(s, expr) ==
    IF ~isDefined(s, expr.name)
    THEN [s |-> addError(s, "Undefined variable '" \o expr.name \o "'"), type |-> "int"]
    ELSE [s |-> addWarningIf(s, ~s.symbolTable[expr.name].initialized,
                             "Variable '" \o expr.name \o "' may be uninitialized"),
          type |-> s.symbolTable[expr.name].type]

visitCallExpr(s, expr) == [s |-> s, type |-> "int"]

RECURSIVE visitExpression(_, _)
RECURSIVE visitStatement(_, _)
RECURSIVE visitStatements(_, _)

visitBinExpr(s, expr) ==
    LET l == visitExpression(s, expr.left)
        r == visitExpression(l.s, expr.right)
    IN IF expr.op \in {"EQ", "NE", "LT", "GT", "LE", "GE"}
       THEN [s |-> r.s, type |-> "bool"]
       ELSE IF expr.op \in {"AND", "OR"}
       THEN LET s1 == addWarningIf(r.s, l.type # "bool",
                                   "Logical operator expects boolean, got " \o l.type)
                s2 == addWarningIf(s1, r.type # "bool",
                                   "Logical operator expects boolean, got " \o r.type)
            IN [s |-> s2, type |-> "bool"]
       ELSE [s |-> addWarningIf(r.s, l.type # r.type, "Type mismatch in binary operation"),
             type |-> l.type]

visitUnExpr(s, expr) ==
    LET o == visitExpression(s, expr.operand)
    IN IF expr.op = "NEG"
       THEN [s |-> addWarningIf(o.s, o.type # "int", "Unary minus expects int, got " \o o.type),
             type |-> "int"]
       ELSE IF expr.op = "NOT"
       THEN [s |-> addWarningIf(o.s, o.type # "bool", "Logical not expects bool, got " \o o.type),
             type |-> "bool"]
       ELSE o

visitExpression(s, expr) ==
    CASE expr.k = "NULL" -> [s |-> s, type |-> "int"]
      [] expr.k = "BIN_EXPR" -> visitBinExpr(s, expr)
      [] expr.k = "UN_EXPR" -> visitUnExpr(s, expr)
      [] expr.k = "VAR_EXPR" -> visitVarExpr(s, expr)
      [] expr.k = "CONST_EXPR" -> [s |-> s, type |-> expr.alt]
      [] expr.k = "CALL_EXPR" -> visitCallExpr(s, expr)
      [] OTHER -> [s |-> s, type |-> "int"]

\* mutant of visitDecl: a redeclaration still analyses its initializer
visitDeclContinues(s, decl) ==
    LET s0 == IF isDefined(s, decl.varName)
              THEN addError(s, "Variable '" \o decl.varName \o "' already defined")
              ELSE s
        e == visitExpression(s0, decl.initializer)
        s1 == IF decl.initializer.k # "NULL"
              THEN addWarningIf(e.s, e.type # decl.dataType,
                       "Type mismatch in initialization of '" \o decl.varName
                           \o "': expected " \o decl.dataType \o ", got " \o e.type)
              ELSE s0
    IN IF isDefined(s, decl.varName) THEN s1
       ELSE [s1 EXCEPT !.symbolTable = mapPut(@, decl.varName, Symbol(decl))]

\* mutant of visitDecl: the symbol is never entered into the table
visitDeclForgets(s, decl) ==
    IF isDefined(s, decl.varName)
    THEN addError(s, "Variable '" \o decl.varName \o "' already defined")
    ELSE IF decl.initializer.k # "NULL"
         THEN LET e == visitExpression(s, decl.initializer)
              IN addWarningIf(e.s, e.type # decl.dataType,
                     "Type mismatch in initialization of '" \o decl.varName
                         \o "': expected " \o decl.dataType \o ", got " \o e.type)
         ELSE s

visitDecl(s, decl) ==
    IF isDefined(s, decl.varName)
    THEN addError(s, "Variable '" \o decl.varName \o "' already defined")
    ELSE LET s1 == IF decl.initializer.k # "NULL"
                   THEN LET e == visitExpression(s, decl.initializer)
                        IN addWarningIf(e.s, e.type # decl.dataType,
                               "Type mismatch in initialization of '" \o decl.varName
                                   \o "': expected " \o decl.dataType \o ", got " \o e.type)
                   ELSE s
         IN [s1 EXCEPT !.symbolTable = mapPut(@, decl.varName, Symbol(decl))]

visitAssign(s, assign) ==
    IF ~isDefined(s, assign.varName)
    THEN addError(s, "Variable '" \o assign.varName \o "' is not defined")
    ELSE LET e == visitExpression(s, assign.value)
             varType == e.s.symbolTable[assign.varName].type
             s1 == addWarningIf(e.s, e.type # varType,
                       "Type mismatch in assignment to '" \o assign.varName
                           \o "': expected " \o varType \o ", got " \o e.type)
         IN [s1 EXCEPT !.symbolTable[assign.varName].initialized = TRUE]

visitIfStatement(s, ifStmt) ==
    LET c == visitExpression(s, ifStmt.condition)
        s1 == addWarningIf(c.s, c.type # "bool",
                           "If condition should be boolean, got " \o c.type)
    IN visitStatements(visitStatements(s1, ifStmt.thenBranch), ifStmt.elseBranch)

visitWhileStatement(s, whileStmt) ==
    LET c == visitExpression(s, whileStmt.condition)
        s1 == addWarningIf(c.s, c.type # "bool",
                           "While condition should be boolean, got " \o c.type)
    IN visitStatements(s1, whileStmt.body)

visitForStatement(s, forStmt) ==
    LET s0 == IF forStmt.init.k # "NULL" THEN visitStatement(s, forStmt.init) ELSE s
        s1 == IF forStmt.condition.k # "NULL"
              THEN LET c == visitExpression(s0, forStmt.condition)
                   IN addWarningIf(c.s, c.type # "bool",
                                   "For condition should be boolean, got " \o c.type)
              ELSE s0
        s2 == IF forStmt.update.k # "NULL" THEN visitExpression(s1, forStmt.update).s ELSE s1
    IN visitStatements(s2, forStmt.body)

visitStatement(s, stmt) ==
    CASE stmt.k = "NULL" -> s
      [] stmt.k = "DECL" -> visitDecl(s, stmt)
      [] stmt.k = "ASSIGN" -> visitAssign(s, stmt)
      [] stmt.k = "IF_STMT" -> visitIfStatement(s, stmt)
      [] stmt.k = "WHILE_STMT" -> visitWhileStatement(s, stmt)
      [] stmt.k = "FOR_STMT" -> visitForStatement(s, stmt)
      [] stmt.k = "BLOCK" -> visitStatements(s, stmt.statements)
      [] stmt.k = "PRINT_STMT" -> visitExpression(s, stmt.value).s
      [] stmt.k = "RETURN_STMT" ->
            IF stmt.value.k # "NULL" THEN visitExpression(s, stmt.value).s ELSE s
      [] OTHER -> s

\* `for(const auto& stmt : stmts) visitStatement(stmt)`
visitStatements(s, stmts) ==
    IF stmts = <<>> THEN s
    ELSE visitStatements(visitStatement(s, Head(stmts)), Tail(stmts))

\* mutant of accepts: every program is accepted
acceptsAlways(s) == TRUE

\* `return errors.empty()`
accepts(s) == s.errors = <<>>

\* ---------------------------------------------------------------- codegen.h
\* g = the members of CodeGenerator: ir, tempCounter, labelCounter, variableTypes
CodeGenerator ==
    [ir |-> IRProgram, tempCounter |-> 0, labelCounter |-> 0, variableTypes |-> <<>>]

\* mutant of genTemp: the counter is not incremented
genTempNoIncrement(g) == [g |-> g, name |-> "t" \o ToString(g.tempCounter)]

genTemp(g) ==
    [g |-> [g EXCEPT !.tempCounter = @ + 1], name |-> "t" \o ToString(g.tempCounter)]

\* mutant of genLabel: the counter is not incremented
genLabelNoIncrement(g) == [g |-> g, name |-> "L" \o ToString(g.labelCounter)]

genLabel(g) ==
    [g |-> [g EXCEPT !.labelCounter = @ + 1], name |-> "L" \o ToString(g.labelCounter)]
emitInstruction(g, instr) == [g EXCEPT !.ir.instructions = Append(@, instr)]

typeCodeOf(dataType) == IF dataType = "int" THEN 0 ELSE 1
\* ir.variableTypes[name] = typeCode; variableTypes[name] = typeCode
registerVar(g, decl) ==
    [g EXCEPT !.ir.variableTypes = mapPut(@, decl.varName, typeCodeOf(decl.dataType)),
              !.variableTypes = mapPut(@, decl.varName, typeCodeOf(decl.dataType))]

RECURSIVE genExpression(_, _)
RECURSIVE genArgs(_, _, _)
RECURSIVE genStatement(_, _)
RECURSIVE genStatements(_, _)

genBinExpr(g, expr) ==
    LET l == genExpression(g, expr.left)
        r == genExpression(l.g, expr.right)
        t == genTemp(r.g)
        instr == createBinOp(OperandName(t.name, "TEMP"), expr.op, l.op, r.op)
    IN [g |-> emitInstruction(t.g, instr), op |-> OperandName(t.name, "TEMP")]

genUnExpr(g, expr) ==
    LET o == genExpression(g, expr.operand)
        t == genTemp(o.g)
        instr == createUnOp(OperandName(t.name, "TEMP"), expr.op, o.op)
    IN [g |-> emitInstruction(t.g, instr), op |-> OperandName(t.name, "TEMP")]

\* the argument loop of genCallExpr: [g, args]
genArgs(g, exprs, acc) ==
    IF exprs = <<>> THEN [g |-> g, args |-> acc]
    ELSE LET a == genExpression(g, Head(exprs))
         IN genArgs(a.g, Tail(exprs), Append(acc, a.op))

genCallExpr(g, expr) ==
    LET a == genArgs(g, expr.args, <<>>)
        t == genTemp(a.g)
        instr == createCall(OperandName(t.name, "TEMP"), expr.funcName, a.args)
    IN [g |-> emitInstruction(t.g, instr), op |-> OperandName(t.name, "TEMP")]

genExpression(g, expr) ==
    CASE expr.k = "NULL" -> [g |-> g, op |-> OperandInt(0)]
      [] expr.k = "BIN_EXPR" -> genBinExpr(g, expr)
      [] expr.k = "UN_EXPR" -> genUnExpr(g, expr)
      [] expr.k = "VAR_EXPR" -> [g |-> g, op |-> OperandName(expr.name, "VAR")]
      [] expr.k = "CONST_EXPR" ->
            IF expr.alt = "int"
            THEN [g |-> g, op |-> OperandInt(expr.intValue)]
            ELSE [g |-> g, op |-> OperandInt(IF expr.boolValue THEN 1 ELSE 0)]
      [] expr.k = "CALL_EXPR" -> genCallExpr(g, expr)
      [] OTHER -> [g |-> g, op |-> OperandInt(0)]

genDecl(g, decl) ==
    LET g1 == registerVar(g, decl) IN
    IF decl.initializer.k # "NULL"
    THEN LET r == genExpression(g1, decl.initializer)
         IN emitInstruction(r.g, createAssign(OperandName(decl.varName, "VAR"), r.op))
    ELSE g1

genAssign(g, assign) ==
    LET r == genExpression(g, assign.value)
    IN emitInstruction(r.g, createAssign(OperandName(assign.varName, "VAR"), r.op))

genIfStatement(g, ifStmt) ==
    LET c == genExpression(g, ifStmt.condition)
        elseLabel == genLabel(c.g)
        endLabel == genLabel(elseLabel.g)
        g1 == emitInstruction(endLabel.g, createIfGoto(c.op, elseLabel.name))
        g2 == genStatements(g1, ifStmt.thenBranch)
    IN IF ifStmt.elseBranch # <<>>
       THEN LET g3 == emitInstruction(g2, createGoto(endLabel.name))
                g4 == emitInstruction(g3, createLabel(elseLabel.name))
                g5 == genStatements(g4, ifStmt.elseBranch)
            IN emitInstruction(g5, createLabel(endLabel.name))
       ELSE emitInstruction(g2, createLabel(elseLabel.name))

\* mutant of genWhileStatement: the condition is tested after the body
genWhileStatementTestsLast(g, whileStmt) ==
    LET loopLabel == genLabel(g)
        endLabel == genLabel(loopLabel.g)
        g1 == emitInstruction(endLabel.g, createLabel(loopLabel.name))
        g2 == genStatements(g1, whileStmt.body)
        c == genExpression(g2, whileStmt.condition)
        g3 == emitInstruction(c.g, createIfGoto(c.op, endLabel.name))
        g4 == emitInstruction(g3, createGoto(loopLabel.name))
    IN emitInstruction(g4, createLabel(endLabel.name))

genWhileStatement(g, whileStmt) ==
    LET loopLabel == genLabel(g)
        endLabel == genLabel(loopLabel.g)
        g1 == emitInstruction(endLabel.g, createLabel(loopLabel.name))
        c == genExpression(g1, whileStmt.condition)
        g2 == emitInstruction(c.g, createIfGoto(c.op, endLabel.name))
        g3 == genStatements(g2, whileStmt.body)
        g4 == emitInstruction(g3, createGoto(loopLabel.name))
    IN emitInstruction(g4, createLabel(endLabel.name))

\* mutant of genForStatement: the update is emitted before the body
genForStatementUpdateFirst(g, forStmt) ==
    LET g0 == IF forStmt.init.k # "NULL" THEN genStatement(g, forStmt.init) ELSE g
        loopLabel == genLabel(g0)
        endLabel == genLabel(loopLabel.g)
        g1 == emitInstruction(endLabel.g, createLabel(loopLabel.name))
        g2 == IF forStmt.condition.k # "NULL"
              THEN LET c == genExpression(g1, forStmt.condition)
                   IN emitInstruction(c.g, createIfGoto(c.op, endLabel.name))
              ELSE g1
        g3 == IF forStmt.update.k # "NULL" THEN genExpression(g2, forStmt.update).g ELSE g2
        g4 == genStatements(g3, forStmt.body)
        g5 == emitInstruction(g4, createGoto(loopLabel.name))
    IN emitInstruction(g5, createLabel(endLabel.name))

genForStatement(g, forStmt) ==
    LET g0 == IF forStmt.init.k # "NULL" THEN genStatement(g, forStmt.init) ELSE g
        loopLabel == genLabel(g0)
        endLabel == genLabel(loopLabel.g)
        g1 == emitInstruction(endLabel.g, createLabel(loopLabel.name))
        g2 == IF forStmt.condition.k # "NULL"
              THEN LET c == genExpression(g1, forStmt.condition)
                   IN emitInstruction(c.g, createIfGoto(c.op, endLabel.name))
              ELSE g1
        g3 == genStatements(g2, forStmt.body)
        g4 == IF forStmt.update.k # "NULL" THEN genExpression(g3, forStmt.update).g ELSE g3
        g5 == emitInstruction(g4, createGoto(loopLabel.name))
    IN emitInstruction(g5, createLabel(endLabel.name))

genStatement(g, stmt) ==
    CASE stmt.k = "NULL" -> g
      [] stmt.k = "DECL" -> genDecl(g, stmt)
      [] stmt.k = "ASSIGN" -> genAssign(g, stmt)
      [] stmt.k = "IF_STMT" -> genIfStatement(g, stmt)
      [] stmt.k = "WHILE_STMT" -> genWhileStatement(g, stmt)
      [] stmt.k = "FOR_STMT" -> genForStatement(g, stmt)
      [] stmt.k = "BLOCK" -> genStatements(g, stmt.statements)
      [] stmt.k = "PRINT_STMT" ->
            LET r == genExpression(g, stmt.value)
            IN emitInstruction(r.g, createPrint(r.op))
      [] stmt.k = "RETURN_STMT" ->
            IF stmt.value.k # "NULL"
            THEN LET r == genExpression(g, stmt.value)
                 IN emitInstruction(r.g, createReturn(r.op))
            ELSE emitInstruction(g, createReturn(OperandInt(0)))
      [] OTHER -> g

\* `for(const auto& s : stmts) genStatement(s)`
genStatements(g, stmts) ==
    IF stmts = <<>> THEN g
    ELSE genStatements(genStatement(g, Head(stmts)), Tail(stmts))

\* first pass of generate: the top-level declarations
RECURSIVE collectDecls(_, _)
collectDecls(g, stmts) ==
    IF stmts = <<>> THEN g
    ELSE collectDecls(IF Head(stmts).k = "DECL" THEN registerVar(g, Head(stmts)) ELSE g,
                      Tail(stmts))

\* generate on a generator whose members are g: the members after the call
\* (the returned program is the member ir)
generate(g, program) ==
    LET g0 == [g EXCEPT !.ir.instructions = <<>>, !.tempCounter = 0, !.labelCounter = 0]
    IN genStatements(collectDecls(g0, program), program)

\* ---------------------------------------------------------------- inputs
X == OperandName("x", "VAR")
Y == OperandName("y", "VAR")
T0 == OperandName("t0", "TEMP")
C(v) == OperandInt(v)

\* the instructions the hand-built TAC programs are made of
TacPool ==
    { createBinOp(T0, "ADD", C(1), C(2)),
      createBinOp(X, "DIV", C(1), C(0)),
      createBinOp(Y, "DIV", C(1), X),
      createAssign(X, C(1)),
      createAssign(Y, X),
      createAssign(X, T0),
      createPrint(X),
      createPrint(T0),
      createIfGoto(X, "L0"),
      createLabel("L0"),
      createGoto("L0"),
      createReturn(Y),
      createCall(T0, "print", <<Y>>) }

DeclaredXY == [n \in {"x", "y"} |-> 0]

TacPrograms ==
    { [instructions |-> s, variableTypes |-> DeclaredXY] :
        s \in UNION { [1..n -> TacPool] : n \in 0..MaxLen } }

\* one constant-operand instruction, its destination printed afterwards
ConstRange == (0 - MaxConst)..MaxConst
FoldPrograms ==
    { [instructions |-> <<createBinOp(X, op, C(a), C(b)), createPrint(X)>>,
       variableTypes |-> DeclaredXY] : op \in BinOps, a \in ConstRange, b \in ConstRange }
    \cup
    { [instructions |-> <<createUnOp(X, op, C(a)), createPrint(X)>>,
       variableTypes |-> DeclaredXY] : op \in UnOps, a \in ConstRange }

\* int a = 2; int b = 3; print(a + b);
ScenarioA ==
    << DeclStmt("a", "int", ConstExprInt(2)),
       DeclStmt("b", "int", ConstExprInt(3)),
       PrintStmt(BinExpr(VarExpr("a"), "ADD", VarExpr("b"))) >>
\* int x = 0; while (x < 3) { print(x); x = x + 1; }
ScenarioB ==
    << DeclStmt("x", "int", ConstExprInt(0)),
       WhileStmt(BinExpr(VarExpr("x"), "LT", ConstExprInt(3)),
                 << PrintStmt(VarExpr("x")),
                    AssignStmt("x", BinExpr(VarExpr("x"), "ADD", ConstExprInt(1))) >>) >>
\* int z = 5 / 0;
ScenarioC == << DeclStmt("z", "int", BinExpr(ConstExprInt(5), "DIV", ConstExprInt(0))) >>
\* int d = 0; int z = 5 / d;
ScenarioCRuntime ==
    << DeclStmt("d", "int", ConstExprInt(0)),
       DeclStmt("z", "int", BinExpr(ConstExprInt(5), "DIV", VarExpr("d"))) >>
\* int x; int y = x; int z = y;
ScenarioChain ==
    << DeclStmt("x", "int", NullExpr),
       DeclStmt("y", "int", VarExpr("x")),
       DeclStmt("z", "int", VarExpr("y")) >>

\* print(y);
ScenarioD == << PrintStmt(VarExpr("y")) >>

Scenarios == {ScenarioA, ScenarioB, ScenarioC, ScenarioCRuntime, ScenarioChain, ScenarioD}

Leaves == { PrintStmt(VarExpr("x")), AssignStmt("x", ConstExprInt(0)) }
Conds == { VarExpr("x"), BinExpr(VarExpr("x"), "LT", ConstExprInt(3)) }

\* every control statement around a statement s
Wrap(s) ==
    { IfStmt(c, <<s>>, <<>>) : c \in Conds }
    \cup { IfStmt(VarExpr("x"), <<s>>, <<s>>) }
    \cup { WhileStmt(c, <<s>>) : c \in Conds }
    \cup { ForStmt(NullStmt, NullExpr, NullExpr, <<s>>),
           ForStmt(DeclStmt("i", "int", ConstExprInt(0)), VarExpr("x"),
                   BinExpr(VarExpr("i"), "ADD", ConstExprInt(1)), <<s>>) }
    \cup { BlockStmt(<<s>>) }

\* statements with control statements nested up to depth d
RECURSIVE Nest(_)
Nest(d) == IF d = 0 THEN Leaves
           ELSE LET sub == Nest(d - 1) IN sub \cup UNION { Wrap(s) : s \in sub }

\* statements with declarations, redeclarations, undeclared and uninitialized names
SemPool ==
    { DeclStmt("x", "int", ConstExprInt(1)),
      DeclStmt("x", "bool", VarExpr("y")),
      DeclStmt("y", "int", NullExpr),
      PrintStmt(VarExpr("y")),
      PrintStmt(BinExpr(VarExpr("x"), "ADD", VarExpr("y"))),
      AssignStmt("y", ConstExprBool(TRUE)),
      DeclStmt("x", "int", CallExpr("f", << VarExpr("y") >>)) }

SemPrograms == UNION { [1..n -> SemPool] : n \in 1..MaxStmts }

\* int x = v; if (c) { print(1); } [else { print(2); }]
IfPrograms ==
    { << DeclStmt("x", "int", ConstExprInt(v)),
         IfStmt(c, << PrintStmt(ConstExprInt(1)) >>, e) >> :
        v \in {0, 1}, c \in Conds, e \in { <<>>, << PrintStmt(ConstExprInt(2)) >> } }

\* every operator around an expression e
ExprWrap(e) ==
    { BinExpr(e, "ADD", VarExpr("a")),
      BinExpr(ConstExprInt(1), "MUL", e),
      BinExpr(e, "SUB", e),
      UnExpr("NEG", e),
      CallExpr("f", << e, VarExpr("a") >>) }

\* expressions with operators nested up to depth d
RECURSIVE ExprNest(_)
ExprNest(d) == IF d = 0 THEN { VarExpr("a"), ConstExprInt(1) }
               ELSE LET sub == ExprNest(d - 1) IN sub \cup UNION { ExprWrap(e) : e \in sub }

\* int a = 2; print(e);
ExprPrograms ==
    { << DeclStmt("a", "int", ConstExprInt(2)), PrintStmt(e) >> : e \in ExprNest(MaxDepth) }

\* int a = va; int b = vb; print(a && b);   (and ||)
LogicValuePrograms ==
    { << DeclStmt("a", "int", ConstExprInt(va)), DeclStmt("b", "int", ConstExprInt(vb)),
         PrintStmt(BinExpr(VarExpr("a"), op, VarExpr("b"))) >> :
        va \in {0, 2}, vb \in {0, 2}, op \in {"AND", "OR"} }

\* int d = 0; int a = va; print(a && 1 / d);   (and ||)
LogicFaultPrograms ==
    { << DeclStmt("d", "int", ConstExprInt(0)), DeclStmt("a", "int", ConstExprInt(va)),
         PrintStmt(BinExpr(VarExpr("a"), op,
                           BinExpr(ConstExprInt(1), "DIV", VarExpr("d")))) >> :
        va \in {0, 2}, op \in {"AND", "OR"} }

\* int x = 1; for ([int i = 0]; [c]; [x + 1]) { s }
ForPrograms ==
    { << DeclStmt("x", "int", ConstExprInt(1)), ForStmt(i, c, u, << s >>) >> :
        i \in { NullStmt, DeclStmt("i", "int", ConstExprInt(0)) },
        c \in { NullExpr } \cup Conds,
        u \in { NullExpr, BinExpr(VarExpr("x"), "ADD", ConstExprInt(1)) },
        s \in Leaves }

AstPrograms ==
    Scenarios \cup SemPrograms \cup IfPrograms \cup ForPrograms \cup ExprPrograms
    \cup LogicValuePrograms \cup LogicFaultPrograms
    \cup { << DeclStmt("x", "int", ConstExprInt(1)), s >> : s \in Nest(MaxDepth) }

\* ---------------------------------------------------------------- the machine
NoResult == [done |-> FALSE, ok |-> FALSE, output |-> <<>>]
Last(seq) == seq[Len(seq)]
ir == Last(progs)

InitInterpreter ==
    /\ variables = <<>>
    /\ output = <<>>
    /\ pc = 0
    /\ status = "idle"
    /\ steps = 0
    /\ reads = <<>>
    /\ setLog = <<>>

InitAnalyzer ==
    /\ gen = CodeGenerator
    /\ sem = SemanticAnalyzer
    /\ spos = 0
    /\ analyses = <<>>

Init ==
    /\ InitAnalyzer
    /\ \/ /\ ast \in AstPrograms
          /\ stage = "parsed"
          /\ progs = <<>>
          /\ results = <<>>
       \/ /\ ast = <<>>
          /\ stage = "generated"
          /\ progs \in { <<p>> : p \in TacPrograms \cup FoldPrograms }
          /\ results = <<NoResult>>
    /\ InitInterpreter

\* a call of analyze on the analyzer: nothing is reset on entry
AnalyzeCall ==
    /\ stage \in {"parsed", "analyzed"}
    /\ Len(analyses) < MaxAnalyze
    /\ stage' = "analyzing"
    /\ spos' = 0
    /\ UNCHANGED <<ast, gen, sem, analyses, progs, results,
                   variables, output, pc, status, steps, reads, setLog>>

\* one iteration of the statement loop of analyze
AnalyzeStep ==
    /\ stage = "analyzing"
    /\ spos < Len(ast)
    /\ sem' = visitStatement(sem, ast[spos + 1])
    /\ spos' = spos + 1
    /\ UNCHANGED <<ast, gen, stage, analyses, progs, results,
                   variables, output, pc, status, steps, reads, setLog>>

\* the return of analyze, and what main reads from the analyzer afterwards
AnalyzeReturn ==
    /\ stage = "analyzing"
    /\ spos = Len(ast)
    /\ stage' = "analyzed"
    /\ analyses' = Append(analyses, [ok |-> accepts(sem), errors |-> sem.errors,
                                     warnings |-> sem.warnings])
    /\ UNCHANGED <<ast, gen, sem, spos, progs, results,
                   variables, output, pc, status, steps, reads, setLog>>

\* bool semanticOK = semanticAnalyzer.analyze(ast)
semanticOK == analyses # <<>> /\ Last(analyses).ok

\* the programs a generator may have compiled before it is given ast
EarlierPrograms == {ScenarioA, ScenarioB}

\* generate called on the fresh generator with another AST, before ast
GenerateEarlier ==
    /\ stage = "analyzed"
    /\ semanticOK
    /\ gen = CodeGenerator
    /\ \E other \in EarlierPrograms : gen' = generate(gen, other)
    /\ UNCHANGED <<ast, stage, sem, spos, analyses, progs, results,
                   variables, output, pc, status, steps, reads, setLog>>

\* main.cpp phase 4 (after `if(!semanticOK) return 1`): the CodeGenerator
\* compiles the AST
Generate ==
    /\ stage = "analyzed"
    /\ semanticOK
    /\ stage' = "generated"
    /\ gen' = generate(gen, ast)
    /\ progs' = << gen'.ir >>
    /\ results' = <<NoResult>>
    /\ UNCHANGED <<ast, sem, spos, analyses,
                   variables, output, pc, status, steps, reads, setLog>>

\* main.cpp phase 5: ir = optimizer.optimize(ir)
Optimize ==
    /\ stage = "generated"
    /\ status # "running"
    /\ Len(progs) <= MaxOpt
    /\ progs' = Append(progs, optimize(ir))
    /\ results' = Append(results, NoResult)
    /\ status' = "idle"
    /\ UNCHANGED <<ast, gen, stage, sem, spos, analyses,
                   variables, output, pc, steps, reads, setLog>>

\* Interpreter::execute up to the loop: clear, pc = 0, declared variables = 0
ExecStart ==
    /\ stage = "generated"
    /\ status = "idle"
    /\ variables' = initialStore(ir)
    /\ output' = <<>>
    /\ pc' = 0
    /\ status' = "running"
    /\ steps' = 0
    /\ reads' = <<>>
    /\ setLog' = <<>>
    /\ UNCHANGED <<ast, gen, stage, sem, spos, analyses, progs, results>>

logSets(log, sets) ==
    IF sets = <<>> THEN log
    ELSE mapPut(log, str(sets[1].op), [type |-> sets[1].op.type, v |-> sets[1].v])

\* one iteration of the loop of execute, or its exit
ExecStep ==
    /\ status = "running"
    /\ steps < MaxSteps
    /\ LET m == [variables |-> variables, output |-> output, pc |-> pc,
                 status |-> status, reads |-> <<>>, sets |-> <<>>]
           n == loopStep(m, ir)
       IN /\ variables' = n.variables
          /\ output' = n.output
          /\ pc' = n.pc
          /\ status' = n.status
          /\ reads' = n.reads
          /\ setLog' = logSets(setLog, n.sets)
          /\ results' = IF n.status = "running" THEN results
                        ELSE [results EXCEPT ![Len(progs)] =
                                [done |-> TRUE, ok |-> n.status = "ok", output |-> n.output]]
    /\ steps' = steps + 1
    /\ UNCHANGED <<ast, gen, stage, sem, spos, analyses, progs>>

Next ==
    \/ AnalyzeCall \/ AnalyzeStep \/ AnalyzeReturn
    \/ GenerateEarlier \/ Generate \/ Optimize \/ ExecStart \/ ExecStep

Spec == Init /\ [][Next]_vars

\* ---------------------------------------------------------------- claims
Executed(k) == k \in 1..Len(results) /\ results[k].done
AtInstr == status = "running" /\ steps < MaxSteps /\ pc < Len(ir.instructions)
CurInstr == ir.instructions[pc + 1]

\* C1: after an instruction writes value v into a Temporary t, every later read of t
\* as a source operand, before t is written again, yields v.
C1_TempReadYieldsWritten ==
    [][\A i \in 1..Len(reads') :
          LET r == reads'[i] IN
          (isTemp(r.op) /\ str(r.op) \in DOMAIN setLog /\ setLog[str(r.op)].type = "TEMP")
              => r.v = setLog[str(r.op)].v]_vars

\* C2 (as claimed): execute(optimize(p)) returns the same success flag and the same
\* ordered output as execute(p), for every TAC program p.
C2_OptimizePreservesResult ==
    \A k \in 1..(Len(results) - 1) :
        (results[k].done /\ results[k + 1].done) => results[k + 1] = results[k]

\* C2 (amended): whenever execute(p) succeeds, execute(optimize(p)) succeeds with the
\* same ordered output.
C2_OptimizePreservesSuccess ==
    \A k \in 1..(Len(results) - 1) :
        (results[k].done /\ results[k].ok /\ results[k + 1].done)
            => results[k + 1] = results[k]

C2_Witness ==
    /\ Executed(1) /\ Executed(2)
    /\ results[1].ok /\ results[2].ok
    /\ Len(results[1].output) >= 2
    /\ Len(progs[2].instructions) < Len(progs[1].instructions)

\* C3: scenario B executes successfully with output exactly ["0","1","2"].
C3_ScenarioBOutput ==
    ast = ScenarioB =>
        \A k \in 1..Len(results) :
            results[k].done => (results[k].ok /\ results[k].output = <<"0", "1", "2">>)

\* C4: scenario A generates exactly one BinaryOp(ADD), optimize folds it to the
\* constant 5, and execution prints exactly ["5"].
AddInstrs(program) ==
    {i \in 1..Len(program.instructions) :
        program.instructions[i].type = "BIN_OP" /\ program.instructions[i].binOp = "ADD"}
C4_ScenarioA ==
    (ast = ScenarioA /\ stage = "generated") =>
        /\ Cardinality(AddInstrs(progs[1])) = 1
        /\ Len(progs) >= 2 =>
              \E i \in 1..Len(progs[2].instructions) :
                  /\ progs[2].instructions[i].type = "ASSIGN"
                  /\ progs[2].instructions[i].op1 = OperandInt(5)
        /\ \A k \in 1..Len(results) :
              results[k].done => (results[k].ok /\ results[k].output = <<"5">>)

ConstOperands(instr) ==
    \/ instr.type = "BIN_OP" /\ isConst(instr.op1) /\ isConst(instr.op2)
    \/ instr.type = "UN_OP" /\ isConst(instr.op1)
ZeroDivisor(instr) ==
    instr.type = "BIN_OP" /\ instr.binOp \in {"DIV", "MOD"} /\ instr.op2.value = 0
\* the constant foldConstants puts in place of the instruction at pc
FoldedValue == foldConstants(ir).instructions[pc + 1].op1.value
\* the interpreter went on and passed v to setValue for the destination of instr
Computed(instr, v) ==
    /\ status' = "running"
    /\ str(instr.result) \in DOMAIN setLog'
    /\ setLog'[str(instr.result)].v = v

\* C5 (as claimed): for every constant-operand BinaryOp (13 operators) and UnaryOp
\* (NEG, NOT), the folded constant equals the value the interpreter computes when it
\* executes the unfolded instruction.
C5_FoldEqualsInterpret ==
    [][(AtInstr /\ ConstOperands(CurInstr)) => Computed(CurInstr, FoldedValue)]_vars

\* C5 (amended): the same, except DIV and MOD by the constant 0, where the fold
\* yields 0 and the interpreter throws instead of computing a value.
C5_FoldEqualsInterpretUnlessZeroDivisor ==
    [][(AtInstr /\ ConstOperands(CurInstr)) =>
          IF ZeroDivisor(CurInstr)
          THEN status' = "fail" /\ FoldedValue = 0
          ELSE Computed(CurInstr, FoldedValue)]_vars

C5_Witness ==
    /\ status = "running" /\ pc = 1
    /\ ir.instructions[1].type = "BIN_OP" /\ ir.instructions[1].binOp = "MOD"
    /\ Len(reads) = 2 /\ isConst(reads[1].op) /\ isConst(reads[2].op)
    /\ "x" \in DOMAIN setLog /\ setLog["x"].v = -1

\* every constant DIV/MOD by 0 of the program is folded to an Assign of Constant 0
FoldsZeroDivisors(program) ==
    \A i \in 1..Len(program.instructions) :
        LET instr == program.instructions[i]
            folded == foldConstants(program).instructions[i]
        IN (ConstOperands(instr) /\ ZeroDivisor(instr)) =>
              /\ folded.type = "ASSIGN"
              /\ folded.op1 = OperandInt(0)
              /\ folded.result = instr.result

\* C6 (as claimed): a constant DIV/MOD by 0 is rewritten to an Assign of Constant 0,
\* and for `int z = 5 / 0;` the optimized program contains Assign(z, 0).
C6_ZeroDivisorFoldsToAssignZ ==
    /\ \A k \in 1..Len(progs) : FoldsZeroDivisors(progs[k])
    /\ (ast = ScenarioC /\ Len(progs) >= 2) =>
          \E i \in 1..Len(progs[2].instructions) :
              /\ progs[2].instructions[i].type = "ASSIGN"
              /\ str(progs[2].instructions[i].result) = "z"
              /\ progs[2].instructions[i].op1 = OperandInt(0)

\* C6 (amended): a constant DIV/MOD by 0 is rewritten to an Assign of Constant 0; for
\* `int z = 5 / 0;` optimization succeeds and the optimized program is the single
\* instruction Assign(t0, 0): the copy z = t0 is removed as dead, and no instruction
\* assigns z.
C6_ZeroDivisorFoldsToAssignTemp ==
    /\ \A k \in 1..Len(progs) : FoldsZeroDivisors(progs[k])
    /\ (ast = ScenarioC /\ Len(progs) >= 2) =>
          /\ Len(progs[2].instructions) = 1
          /\ progs[2].instructions[1].type = "ASSIGN"
          /\ progs[2].instructions[1].result = OperandName("t0", "TEMP")
          /\ progs[2].instructions[1].op1 = OperandInt(0)
          /\ (Executed(2) => results[2].ok)

C6_Witness == ast = ScenarioC /\ Len(progs) = 2 /\ Executed(2)

\* the instruction at pc is a DIV or MOD whose divisor evaluates to 0
DivisorIsZero ==
    /\ AtInstr
    /\ CurInstr.type = "BIN_OP" /\ CurInstr.binOp \in {"DIV", "MOD"}
    /\ getValue(variables, CurInstr.op1).ok
    /\ getValue(variables, CurInstr.op2).ok
    /\ getValue(variables, CurInstr.op2).v = 0

\* C7: a DIV or MOD whose divisor evaluates to 0 at run time makes execute return
\* failure without writing the destination, no later instruction executes, and
\* `int d = 0; int z = 5 / d;` fails with or without one optimize call.
C7_RuntimeZeroDivisorIsFatal ==
    /\ [][DivisorIsZero =>
             /\ status' = "fail"
             /\ results'[Len(progs)] = [done |-> TRUE, ok |-> FALSE, output |-> output]
             /\ UNCHANGED <<variables, output, pc, setLog>>]_vars
    /\ [][status = "fail" =>
             /\ UNCHANGED <<variables, output, pc, setLog>>
             /\ results'[Len(progs)] = results[Len(progs)]]_vars
    /\ [](ast = ScenarioCRuntime =>
             \A k \in 1..Len(results) : (k <= 2 /\ results[k].done) => ~results[k].ok)

C7_Witness ==
    /\ ast = ScenarioCRuntime
    /\ Executed(1) /\ Executed(2)
    /\ ~results[1].ok /\ ~results[2].ok
    /\ status = "fail" /\ pc = 1

\* the names referenced as the operand of a Print, a Return or an IfGoto condition
OutputNames(program) ==
    {str(program.instructions[i].op1) :
        i \in {j \in 1..Len(program.instructions) :
                  program.instructions[j].type \in {"PRINT", "RETURN", "IF_GOTO"}}}
\* the Assign/BinaryOp/UnaryOp instructions of the program that write name n
Writers(program, n) ==
    {i \in 1..Len(program.instructions) :
        isAssignment(program.instructions[i]) /\ str(program.instructions[i].result) = n}

\* C8: optimize never removes an Assign/BinaryOp/UnaryOp whose destination name is
\* the operand of a Print, a Return or an IfGoto condition of the program.
C8_LivenessSoundness ==
    \A k \in 1..(Len(progs) - 1) :
        \A n \in OutputNames(progs[k]) :
            Cardinality(Writers(progs[k + 1], n)) = Cardinality(Writers(progs[k], n))

C8_Witness ==
    /\ Len(progs) >= 2
    /\ Len(progs[2].instructions) < Len(progs[1].instructions)
    /\ \E i \in 1..Len(progs[1].instructions) :
          /\ progs[1].instructions[i].type = "PRINT"
          /\ isTemp(progs[1].instructions[i].op1)
          /\ Writers(progs[1], str(progs[1].instructions[i].op1)) # {}
          /\ Writers(progs[2], str(progs[1].instructions[i].op1)) # {}

\* an instruction the elimination pass keeps, given the used names
Kept(instr, used) == ~isAssignment(instr) \/ str(instr.result) \in used
\* every destination that is read in the program is read by an instruction that is
\* kept; onlyTemps restricts this to Temporary destinations
NoDeadChain(program, onlyTemps) ==
    LET f == foldConstants(program).instructions
        used == usedVars(f)
    IN \A i \in 1..Len(f) :
          (isAssignment(f[i]) /\ str(f[i].result) \in used
             /\ (onlyTemps => isTemp(f[i].result)))
          => \E j \in 1..Len(f) : Kept(f[j], used) /\ str(f[i].result) \in usesOf(f[j])

\* C9 (as claimed): for programs with no temporary-only dead chains,
\* optimize(optimize(p)) is the same program as optimize(p).
C9_IdempotentWithoutTempChains ==
    (Len(progs) >= 3 /\ NoDeadChain(progs[1], TRUE)) => progs[3] = progs[2]

\* C9 (amended): for programs with no dead chains at all (through Temporaries or
\* Variables), optimize(optimize(p)) is the same program as optimize(p).
C9_IdempotentWithoutDeadChains ==
    (Len(progs) >= 3 /\ NoDeadChain(progs[1], FALSE)) => progs[3] = progs[2]

C9_Witness ==
    /\ Len(progs) >= 3
    /\ NoDeadChain(progs[1], FALSE)
    /\ Len(progs[2].instructions) < Len(progs[1].instructions)
    /\ \E i \in 1..Len(progs[2].instructions) :
          progs[2].instructions[i] # progs[1].instructions[i]
    /\ progs[3] = progs[2]

\* the Label instructions of the program that carry the label
LabelsNamed(program, label) ==
    {j \in 1..Len(program.instructions) :
        program.instructions[j].type = "LABEL" /\ program.instructions[j].label = label}
Jumps(program) ==
    {i \in 1..Len(program.instructions) :
        program.instructions[i].type \in {"GOTO", "IF_GOTO"}}

\* C10: in the program returned by generate, every Goto and IfGoto targets a label
\* that names a Label instruction occurring exactly once in that program.
C10_GeneratedLabelsResolveOnce ==
    (stage = "generated" /\ ast # <<>>) =>
        \A i \in Jumps(progs[1]) :
            Cardinality(LabelsNamed(progs[1], progs[1].instructions[i].label)) = 1

C10_Witness ==
    /\ stage = "generated" /\ ast # <<>>
    /\ Cardinality(Jumps(progs[1])) >= 4
    /\ \E i \in Jumps(progs[1]) : progs[1].instructions[i].label = "L3"
    /\ \E i \in Jumps(progs[1]) :
          /\ progs[1].instructions[i].type = "GOTO"
          /\ LabelsNamed(progs[1], progs[1].instructions[i].label) # {}
          /\ \A j \in LabelsNamed(progs[1], progs[1].instructions[i].label) : j < i

\* a Goto or IfGoto of the program whose target names no Label instruction
Unresolved(program) ==
    {i \in Jumps(program) : LabelsNamed(program, program.instructions[i].label) = {}}

\* C11: a program containing a Goto or IfGoto whose target has no Label is rejected
\* at execution start: execute returns failure, nothing is printed and nothing is
\* stored, also when the jump is never reached or never taken.
C11_UnresolvedLabelRejectedAtStart ==
    /\ (status \in {"running", "ok", "fail"} /\ Unresolved(ir) # {}) =>
            (status # "ok" /\ output = <<>> /\ variables = initialStore(ir))
    /\ \A k \in 1..Len(results) :
            (results[k].done /\ Unresolved(progs[k]) # {}) =>
                (~results[k].ok /\ results[k].output = <<>>)

\* the operands of an instruction that its execution reads
SourceOperands(instr) ==
    CASE instr.type = "BIN_OP" -> {instr.op1, instr.op2}
      [] instr.type \in {"UN_OP", "ASSIGN", "IF_GOTO", "PRINT"} -> {instr.op1}
      [] instr.type = "CALL" ->
            IF instr.funcName = "print" /\ Len(instr.args) > 0 THEN {instr.args[1]} ELSE {}
      [] OTHER -> {}

\* a Variable or Temporary that is not in the variable-type table and was never the
\* destination of an executed instruction
NeverStored(op) ==
    /\ ~isConst(op)
    /\ str(op) \notin DOMAIN ir.variableTypes
    /\ str(op) \notin DOMAIN setLog

\* C12: executing an instruction that reads a Variable or Temporary whose name was
\* never stored makes execute fail.
C12_UnstoredReadIsFatal ==
    [][(AtInstr /\ \E op \in SourceOperands(CurInstr) : NeverStored(op))
          => status' = "fail"]_vars

\* C13: execute returns success exactly when the program counter is past the last
\* instruction or a Return executes; after it returned, nothing is printed or stored.
C13_SuccessIffEndOrReturn ==
    /\ [][status = "running" =>
             (status' = "ok" <=>
                (pc >= Len(ir.instructions) \/ CurInstr.type = "RETURN"))]_vars
    /\ [][status = "ok" =>
             /\ UNCHANGED <<variables, output, pc, setLog>>
             /\ results'[Len(progs)] = results[Len(progs)]]_vars
    /\ [](status = "ok" =>
             results[Len(progs)] = [done |-> TRUE, ok |-> TRUE, output |-> output])

C13_Witness ==
    /\ status = "ok"
    /\ pc >= 1 /\ pc + 1 < Len(ir.instructions)
    /\ CurInstr.type = "RETURN"
    /\ ir.instructions[pc + 2].type = "PRINT"
    /\ output # <<>>
    /\ results[Len(progs)].ok

\* the instruction appends to the output: a Print, or a Call named print with an argument
Prints(instr) ==
    \/ instr.type = "PRINT"
    \/ instr.type = "CALL" /\ instr.funcName = "print" /\ Len(instr.args) > 0
PrintedOperand(instr) == IF instr.type = "PRINT" THEN instr.op1 ELSE instr.args[1]

\* the value an operand has in a store shared by variables and temporaries: the
\* literal of a Constant, else the value last stored under the name (0 when declared
\* and never written)
StoredValue(op) ==
    IF isConst(op) THEN op.value
    ELSE IF str(op) \in DOMAIN setLog THEN setLog[str(op)].v
    ELSE 0

\* C14: each executed Print, and each executed Call named print with an argument,
\* appends exactly the decimal text of its operand's value to the output; no other
\* instruction changes the output, and entries are never modified or removed.
C14_OutputIsAppendOnlyLog ==
    [][status = "running" =>
          IF pc < Len(ir.instructions) /\ Prints(CurInstr)
          THEN output' = Append(output, ToString(StoredValue(PrintedOperand(CurInstr))))
          ELSE output' = output]_vars

Redeclares ==
    /\ stage = "analyzing" /\ spos < Len(ast)
    /\ ast[spos + 1].k = "DECL"
    /\ isDefined(sem, ast[spos + 1].varName)

\* C16: a redeclaration appends exactly one error, leaves the symbol table (and the
\* warnings: its initializer is not analysed) unchanged, and analysis goes on with
\* the next statement; analyze returns only after every statement was visited,
\* errors are never dropped, and a program with errors is rejected.
C16_RedeclarationAccumulates ==
    /\ [][Redeclares =>
             /\ sem' = [sem EXCEPT !.errors =
                          Append(@, "Variable '" \o ast[spos + 1].varName
                                        \o "' already defined")]
             /\ spos' = spos + 1
             /\ stage' = "analyzing"]_vars
    /\ [][(stage = "analyzing" /\ stage' # "analyzing") => spos = Len(ast)]_vars
    /\ [][SubSeq(sem'.errors, 1, Len(sem.errors)) = sem.errors]_vars
    /\ [](\A n \in 1..Len(analyses) : analyses[n].errors # <<>> => ~analyses[n].ok)

C16_Witness ==
    /\ ast = << DeclStmt("x", "int", ConstExprInt(1)),
                DeclStmt("x", "bool", VarExpr("y")),
                PrintStmt(VarExpr("y")) >>
    /\ stage = "analyzed" /\ Len(analyses) = 1
    /\ analyses[1].errors = << "Variable 'x' already defined", "Undefined variable 'y'" >>
    /\ ~analyses[1].ok
    /\ sem.symbolTable["x"].type = "int"

\* the variable names an expression reads, in evaluation order
RECURSIVE VarReads(_)
RECURSIVE VarReadsAll(_)
VarReads(expr) ==
    CASE expr.k = "BIN_EXPR" -> VarReads(expr.left) \o VarReads(expr.right)
      [] expr.k = "UN_EXPR" -> VarReads(expr.operand)
      [] expr.k = "VAR_EXPR" -> << expr.name >>
      [] expr.k = "CALL_EXPR" -> VarReadsAll(expr.args)
      [] OTHER -> <<>>
VarReadsAll(exprs) ==
    IF exprs = <<>> THEN <<>> ELSE VarReads(Head(exprs)) \o VarReadsAll(Tail(exprs))

RECURSIVE UndefinedErrors(_, _)
UndefinedErrors(s, names) ==
    IF names = <<>> THEN <<>>
    ELSE (IF isDefined(s, Head(names)) THEN <<>>
          ELSE << "Undefined variable '" \o Head(names) \o "'" >>)
         \o UndefinedErrors(s, Tail(names))

\* a print, or a first declaration: the statements whose analysis reads one
\* expression under the current symbol table and reports nothing else
ReadsExpr(stmt) ==
    stmt.k = "PRINT_STMT" \/ (stmt.k = "DECL" /\ ~isDefined(sem, stmt.varName))
ReadExpr(stmt) == IF stmt.k = "PRINT_STMT" THEN stmt.value ELSE stmt.initializer

\* C17: each read of an undeclared variable appends exactly one error
\* "Undefined variable '<name>'"; `print(y);` with y undeclared is rejected with
\* exactly that one error and is never generated.
C17_UndefinedReadReported ==
    /\ [][(stage = "analyzing" /\ spos < Len(ast) /\ ReadsExpr(ast[spos + 1])) =>
             sem'.errors = sem.errors
                              \o UndefinedErrors(sem, VarReads(ReadExpr(ast[spos + 1])))]_vars
    /\ [](ast = ScenarioD =>
             /\ stage # "generated"
             /\ Len(analyses) >= 1 =>
                   (~analyses[1].ok /\ analyses[1].errors = << "Undefined variable 'y'" >>))

\* declarations, reads and assignments of a statement list in textual order
RECURSIVE StmtEvents(_)
RECURSIVE StmtsEvents(_)
ReadEvents(expr) ==
    LET names == VarReads(expr) IN [i \in 1..Len(names) |-> [kind |-> "read", name |-> names[i]]]
StmtEvents(stmt) ==
    CASE stmt.k = "DECL" ->
            Append(ReadEvents(stmt.initializer), [kind |-> "decl", name |-> stmt.varName])
      [] stmt.k = "ASSIGN" ->
            << [kind |-> "assign", name |-> stmt.varName] >> \o ReadEvents(stmt.value)
      [] stmt.k = "IF_STMT" ->
            ReadEvents(stmt.condition) \o StmtsEvents(stmt.thenBranch)
                \o StmtsEvents(stmt.elseBranch)
      [] stmt.k = "WHILE_STMT" -> ReadEvents(stmt.condition) \o StmtsEvents(stmt.body)
      [] stmt.k = "FOR_STMT" ->
            StmtEvents(stmt.init) \o ReadEvents(stmt.condition)
                \o ReadEvents(stmt.update) \o StmtsEvents(stmt.body)
      [] stmt.k = "BLOCK" -> StmtsEvents(stmt.statements)
      [] stmt.k \in {"PRINT_STMT", "RETURN_STMT"} -> ReadEvents(stmt.value)
      [] OTHER -> <<>>
StmtsEvents(stmts) ==
    IF stmts = <<>> THEN <<>> ELSE StmtEvents(Head(stmts)) \o StmtsEvents(Tail(stmts))

\* every name is declared once, and declared before it is read or assigned
WellDeclared(program) ==
    LET ev == StmtsEvents(program) IN
    \A i \in 1..Len(ev) :
        LET earlier == \E j \in 1..(i - 1) : ev[j].kind = "decl" /\ ev[j].name = ev[i].name
        IN IF ev[i].kind = "decl" THEN ~earlier ELSE earlier

\* C18: on a fresh analyzer, a program in which every name is declared once and
\* before its first read or assignment is accepted with zero fatal errors (type
\* mismatches only add warnings, so the operand types need not be constrained).
C18_WellTypedAccepted ==
    (WellDeclared(ast) /\ Len(analyses) >= 1) =>
        (analyses[1].ok /\ analyses[1].errors = <<>>)

C18_Witness ==
    /\ ast = ScenarioB /\ WellDeclared(ast)
    /\ stage = "generated" /\ Len(analyses) = 1
    /\ analyses[1].ok /\ analyses[1].warnings = <<>>

\* C19: a later analyze call on the same analyzer with the same AST reports what
\* the first call (on the fresh analyzer) reported.
C19_AnalyzeDependsOnlyOnAst ==
    \A n \in 1..Len(analyses) : analyses[n] = analyses[1]

FirstLabel(program, label) ==
    CHOOSE j \in LabelsNamed(program, label) : \A k \in LabelsNamed(program, label) : j <= k

\* C21: a Goto, and an IfGoto whose condition has the value 0, continue at the
\* matching Label; an IfGoto whose condition is non-zero continues at pc + 1;
\* neither changes the store or the output.
C21_JumpSemantics ==
    [][(AtInstr /\ CurInstr.type \in {"GOTO", "IF_GOTO"}
            /\ LabelsNamed(ir, CurInstr.label) # {}) =>
          /\ variables' = variables
          /\ output' = output
          /\ status' = "running"
          /\ IF CurInstr.type = "GOTO" \/ StoredValue(CurInstr.op1) = 0
             THEN /\ pc' = FirstLabel(ir, CurInstr.label) - 1
                  /\ ir.instructions[pc' + 1].type = "LABEL"
             ELSE pc' = pc + 1]_vars

\* what the condition c of the if programs lowers to, and its value when x = v
CondCode(c) == IF c.k = "BIN_EXPR" THEN << createBinOp(T0, c.op, X, C(3)) >> ELSE <<>>
CondOperand(c) == IF c.k = "BIN_EXPR" THEN T0 ELSE X
Truthy(c, v) == IF c.k = "BIN_EXPR" THEN v < 3 ELSE v # 0

\* C22: an if statement lowers to the condition's instructions, IfGoto(cond, else),
\* the then-branch, and then either Goto(end), Label(else), the else-branch,
\* Label(end), or Label(else) alone; executed, a truthy condition runs only the
\* then-branch and a zero condition only the else-branch (or nothing).
C22_IfLowering ==
    (ast \in IfPrograms /\ stage = "generated") =>
        LET v == ast[1].initializer.intValue
            c == ast[2].condition
            e == ast[2].elseBranch
        IN /\ progs[1].instructions =
                 << createAssign(X, C(v)) >> \o CondCode(c)
                    \o << createIfGoto(CondOperand(c), "L0"), createPrint(C(1)) >>
                    \o (IF e # <<>>
                        THEN << createGoto("L1"), createLabel("L0"),
                                createPrint(C(2)), createLabel("L1") >>
                        ELSE << createLabel("L0") >>)
           /\ Executed(1) =>
                 /\ results[1].ok
                 /\ results[1].output = IF Truthy(c, v) THEN << "1" >>
                                        ELSE IF e # <<>> THEN << "2" >> ELSE <<>>

\* what the leaf statements lower to
LeafCode(s) ==
    IF s.k = "PRINT_STMT" THEN << createPrint(X) >> ELSE << createAssign(X, C(0)) >>

\* `int x = 1; while (c) { s }` with a leaf body
IsWhileProgram ==
    /\ Len(ast) = 2 /\ ast[1] = DeclStmt("x", "int", ConstExprInt(1))
    /\ ast[2].k = "WHILE_STMT" /\ ast[2].body[1] \in Leaves
\* the index (from 0) of the first body instruction of the while program
WhileBodyStart == 2 + Len(CondCode(ast[2].condition)) + 1

\* C23: a while statement lowers to Label(loop), the condition's instructions,
\* IfGoto(cond, end), the body, Goto(loop), Label(end); executed, the body is only
\* entered from the IfGoto, so the condition is evaluated before every iteration.
C23_WhileLowering ==
    /\ []((IsWhileProgram /\ stage = "generated") =>
            progs[1].instructions =
                << createAssign(X, C(1)), createLabel("L0") >>
                   \o CondCode(ast[2].condition)
                   \o << createIfGoto(CondOperand(ast[2].condition), "L1") >>
                   \o LeafCode(ast[2].body[1])
                   \o << createGoto("L0"), createLabel("L1") >>)
    /\ [][(IsWhileProgram /\ Len(progs) = 1 /\ status = "running"
              /\ pc' = WhileBodyStart /\ pc' # pc) =>
            /\ pc = WhileBodyStart - 1
            /\ CurInstr.type = "IF_GOTO"
            /\ Len(reads') = 1 /\ reads'[1].op = CondOperand(ast[2].condition)]_vars

C23_Witness ==
    /\ ast = << DeclStmt("x", "int", ConstExprInt(1)),
                WhileStmt(VarExpr("x"), << AssignStmt("x", ConstExprInt(0)) >>) >>
    /\ Len(progs) = 1 /\ Executed(1) /\ results[1].ok
    /\ variables["x"] = 0
    /\ steps = 9

\* what the parts of the for programs lower to
T1 == OperandName("t1", "TEMP")
InitCode(i) == IF i.k = "NULL" THEN <<>> ELSE << createAssign(OperandName("i", "VAR"), C(0)) >>
TestCode(c) ==
    IF c.k = "NULL" THEN <<>>
    ELSE CondCode(c) \o << createIfGoto(CondOperand(c), "L1") >>
UpdateCode(u, c) ==
    IF u.k = "NULL" THEN <<>>
    ELSE << createBinOp(IF c.k = "BIN_EXPR" THEN T1 ELSE T0, "ADD", X, C(1)) >>

\* C24: a for statement lowers to the init statement, Label(loop), the condition's
\* instructions and IfGoto(cond, end) (nothing when the condition is absent), the
\* body, the update's instructions, Goto(loop), Label(end); no instruction reads
\* the update's result.
C24_ForLowering ==
    (ast \in ForPrograms /\ stage = "generated") =>
        LET f == ast[2]
            update == UpdateCode(f.update, f.condition)
        IN /\ progs[1].instructions =
                 << createAssign(X, C(1)) >> \o InitCode(f.init)
                    \o << createLabel("L0") >> \o TestCode(f.condition)
                    \o LeafCode(f.body[1]) \o update
                    \o << createGoto("L0"), createLabel("L1") >>
           /\ update # <<>> => str(update[1].result) \notin usedVars(progs[1].instructions)

C24_Witness ==
    /\ ast = << DeclStmt("x", "int", ConstExprInt(1)),
                ForStmt(DeclStmt("i", "int", ConstExprInt(0)),
                        BinExpr(VarExpr("x"), "LT", ConstExprInt(3)),
                        BinExpr(VarExpr("x"), "ADD", ConstExprInt(1)),
                        << PrintStmt(VarExpr("x")) >>) >>
    /\ stage = "generated"
    /\ Len(progs[1].instructions) = 9
    /\ Executed(1)

\* the number of binary, unary and call expressions in a statement list
RECURSIVE CountOps(_)
RECURSIVE CountOpsAll(_)
RECURSIVE CountOpsStmt(_)
RECURSIVE CountOpsStmts(_)
CountOps(expr) ==
    CASE expr.k = "BIN_EXPR" -> CountOps(expr.left) + CountOps(expr.right) + 1
      [] expr.k = "UN_EXPR" -> CountOps(expr.operand) + 1
      [] expr.k = "CALL_EXPR" -> CountOpsAll(expr.args) + 1
      [] OTHER -> 0
CountOpsAll(exprs) ==
    IF exprs = <<>> THEN 0 ELSE CountOps(Head(exprs)) + CountOpsAll(Tail(exprs))
CountOpsStmt(stmt) ==
    CASE stmt.k = "DECL" -> CountOps(stmt.initializer)
      [] stmt.k \in {"ASSIGN", "PRINT_STMT", "RETURN_STMT"} -> CountOps(stmt.value)
      [] stmt.k = "IF_STMT" ->
            CountOps(stmt.condition) + CountOpsStmts(stmt.thenBranch)
                + CountOpsStmts(stmt.elseBranch)
      [] stmt.k = "WHILE_STMT" -> CountOps(stmt.condition) + CountOpsStmts(stmt.body)
      [] stmt.k = "FOR_STMT" ->
            CountOpsStmt(stmt.init) + CountOps(stmt.condition) + CountOps(stmt.update)
                + CountOpsStmts(stmt.body)
      [] stmt.k = "BLOCK" -> CountOpsStmts(stmt.statements)
      [] OTHER -> 0
CountOpsStmts(stmts) ==
    IF stmts = <<>> THEN 0 ELSE CountOpsStmt(Head(stmts)) + CountOpsStmts(Tail(stmts))

\* the instructions of the program that write a temporary, in emission order
TempWrites(program) == SelectSeq(program.instructions, LAMBDA instr : isTemp(instr.result))
TempName(n) == "t" \o ToString(n)
\* the operands of an instruction in the order they were lowered
OperandSeq(instr) ==
    CASE instr.type = "BIN_OP" -> << instr.op1, instr.op2 >>
      [] instr.type = "UN_OP" -> << instr.op1 >>
      [] instr.type = "CALL" -> instr.args
      [] OTHER -> <<>>

\* C25: in a generated program exactly the binary, unary and call expressions emit
\* an instruction, one each, writing the temporaries t0, t1, ... in emission order
\* (so no temporary is written twice); the temporaries an instruction reads were
\* written before it, in operand order, the last operand's immediately before.
C25_ExpressionLowering ==
    (stage = "generated" /\ ast # <<>>) =>
        LET tw == TempWrites(progs[1]) IN
        /\ Len(tw) = CountOpsStmts(ast)
        /\ \A i \in 1..Len(progs[1].instructions) :
              progs[1].instructions[i].type \in {"BIN_OP", "UN_OP", "CALL"}
                  <=> isTemp(progs[1].instructions[i].result)
        /\ \A k \in 1..Len(tw) :
              /\ str(tw[k].result) = TempName(k - 1)
              /\ LET ops == OperandSeq(tw[k])
                     temps == {i \in 1..Len(ops) : isTemp(ops[i])}
                 IN /\ \A i \in temps : \E n \in 0..(k - 2) : str(ops[i]) = TempName(n)
                    /\ \A i, j \in temps :
                          i < j => \E m, n \in 0..(k - 2) :
                                      /\ m < n
                                      /\ str(ops[i]) = TempName(m)
                                      /\ str(ops[j]) = TempName(n)
                    /\ \A i \in temps :
                          (\A j \in temps : j <= i) => str(ops[i]) = TempName(k - 2)

C25_Witness ==
    /\ stage = "generated" /\ ast \in ExprPrograms
    /\ Len(TempWrites(progs[1])) = 3
    /\ progs[1].instructions[2].type = "CALL"
    /\ progs[1].instructions[4].type = "BIN_OP"
    /\ isTemp(progs[1].instructions[4].op1) /\ isTemp(progs[1].instructions[4].op2)

\* C26: generate on a generator that already compiled another AST returns the
\* program (instructions and variable-type table) a fresh generator returns.
C26_GenerateScopedToOneRun ==
    (stage = "generated" /\ ast # <<>>) => progs[1] = generate(CodeGenerator, ast).ir

\* what the programs of the logic sets lower to
VA == OperandName("a", "VAR")
VB == OperandName("b", "VAR")
VD == OperandName("d", "VAR")
LogicValue(op, l, r) == IF op = "AND" THEN Bool01(l # 0 /\ r # 0) ELSE Bool01(l # 0 \/ r # 0)

\* C27: `a && b` and `a || b` lower to the instructions of both operands followed
\* by one operator instruction; executed, the printed result is 1 or 0 by
\* non-zero-is-true, and a zero divisor in the right operand makes execute fail
\* whatever the left operand is.
C27_NoShortCircuit ==
    /\ (ast \in LogicValuePrograms /\ stage = "generated") =>
          LET va == ast[1].initializer.intValue
              vb == ast[2].initializer.intValue
              op == ast[3].value.op
          IN /\ progs[1].instructions =
                   << createAssign(VA, C(va)), createAssign(VB, C(vb)),
                      createBinOp(T0, op, VA, VB), createPrint(T0) >>
             /\ Executed(1) =>
                   /\ results[1].ok
                   /\ results[1].output = << ToString(LogicValue(op, va, vb)) >>
    /\ (ast \in LogicFaultPrograms /\ stage = "generated") =>
          LET va == ast[2].initializer.intValue
              op == ast[3].value.op
          IN /\ progs[1].instructions =
                   << createAssign(VD, C(0)), createAssign(VA, C(va)),
                      createBinOp(T0, "DIV", C(1), VD),
                      createBinOp(T1, op, VA, T0), createPrint(T1) >>
             /\ Executed(1) => (~results[1].ok /\ results[1].output = <<>>)

\* the names an instruction reads: the source operands of Print, Return, IfGoto,
\* BinaryOp, UnaryOp and Assign, and the arguments of Call
SourceNames(instr) ==
    CASE instr.type \in {"PRINT", "RETURN", "IF_GOTO", "UN_OP", "ASSIGN"} -> {str(instr.op1)}
      [] instr.type = "BIN_OP" -> {str(instr.op1), str(instr.op2)}
      [] instr.type = "CALL" -> {str(instr.args[i]) : i \in 1..Len(instr.args)}
      [] OTHER -> {}
ReadNames(instructions) ==
    UNION {SourceNames(instructions[i]) : i \in 1..Len(instructions)}

\* C28: an optimize call removes from the folded program exactly the Assign,
\* BinaryOp and UnaryOp instructions whose destination no instruction of the folded
\* program reads, in one pass; for `int z = 5 / 0;` one call removes `z = t0` and
\* keeps the definition of t0.
C28_DeadCodeExactlyUnread ==
    /\ [][(progs # <<>> /\ Len(progs') = Len(progs) + 1) =>
             LET before == foldConstants(ir).instructions
                 read == ReadNames(before)
             IN Last(progs').instructions =
                    SelectSeq(before,
                              LAMBDA instr :
                                  ~(/\ instr.type \in {"ASSIGN", "BIN_OP", "UN_OP"}
                                    /\ str(instr.result) \notin read))]_vars
    /\ []((ast = ScenarioC /\ Len(progs) >= 2) =>
             /\ Len(progs[1].instructions) = 2
             /\ str(progs[1].instructions[2].result) = "z"
             /\ Len(progs[2].instructions) = 1
             /\ str(progs[2].instructions[1].result) = "t0")

C28_Witness ==
    /\ Len(progs) = 2
    /\ progs[1].instructions = << createAssign(Y, X), createCall(T0, "print", <<Y>>),
                                  createBinOp(T0, "ADD", C(1), C(2)) >>
    /\ Len(progs[2].instructions) = 2
    /\ progs[2].instructions[1] = createAssign(Y, X)

\* the instructions of the program that are not Assign, BinaryOp or UnaryOp
Fixed(program) ==
    SelectSeq(program.instructions,
              LAMBDA instr : instr.type \in {"LABEL", "GOTO", "IF_GOTO", "PRINT",
                                             "RETURN", "CALL", "NOP"})

\* C29: an optimize call keeps the Label, Goto, IfGoto, Print, Return, Call and Nop
\* instructions of its input, unchanged and in order; its output is not longer than
\* its input, and a jump target naming exactly one Label in the input names exactly
\* one Label in the output.
C29_OptimizeKeepsControlFlow ==
    [][(progs # <<>> /\ Len(progs') = Len(progs) + 1) =>
          LET out == Last(progs') IN
          /\ Fixed(out) = Fixed(ir)
          /\ Len(out.instructions) <= Len(ir.instructions)
          /\ \A i \in Jumps(ir) :
                Cardinality(LabelsNamed(ir, ir.instructions[i].label)) = 1
                    => Cardinality(LabelsNamed(out, ir.instructions[i].label)) = 1]_vars

C29_Witness ==
    /\ ast \in ForPrograms /\ Len(progs) = 2
    /\ Len(progs[2].instructions) < Len(progs[1].instructions)
    /\ \E i \in Jumps(progs[2]) : progs[2].instructions[i].type = "IF_GOTO"
    /\ \E i \in 1..Len(progs[2].instructions) : progs[2].instructions[i].type = "PRINT"
    /\ Fixed(progs[2]) = Fixed(progs[1])

\* every jump of the program that resolves goes to a Label after the jump
ForwardOnly(program) ==
    \A i \in Jumps(program) :
        LabelsNamed(program, program.instructions[i].label) # {}
            => FirstLabel(program, program.instructions[i].label) > i

\* C30: while a forward-only program runs, the program counter strictly increases,
\* so execute returns within Len + 1 loop iterations, each instruction visited at
\* most once; the program counter only fails to increase at a jump whose Label is
\* at or before the jump.
C30_ForwardOnlyTerminates ==
    /\ [][(status = "running" /\ status' = "running" /\ ForwardOnly(ir)) => pc' > pc]_vars
    /\ []((status \in {"running", "ok", "fail"} /\ ForwardOnly(ir)) =>
             /\ pc <= Len(ir.instructions)
             /\ steps <= pc + 1)
    /\ [][(status = "running" /\ status' = "running" /\ pc' <= pc) =>
             /\ CurInstr.type \in {"GOTO", "IF_GOTO"}
             /\ LabelsNamed(ir, CurInstr.label) # {}
             /\ FirstLabel(ir, CurInstr.label) - 1 <= pc]_vars

C30_Witness ==
    /\ progs # <<>>
    /\ ir.instructions = << createGoto("L0"), createPrint(X), createLabel("L0") >>
    /\ ForwardOnly(ir)
    /\ status = "ok" /\ output = <<>>
    /\ pc = 3 /\ steps = 3

====
